---------------------------- MODULE Spec2Model ----------------------------
(***************************************************************************)
(* TAIL - Threat Actor Intelligence Lookup (src/app.py).                   *)
(*                                                                         *)
(* The two request handlers with decision logic, search() and              *)
(* group_details(), over a read-only SQLite dataset.  Text values are      *)
(* sequences of ASCII code points, so that LIKE, =, <, ||, GROUP_CONCAT    *)
(* and str.split act on characters as they do in SQLite and Python.        *)
(***************************************************************************)
EXTENDS Integers, Sequences, FiniteSets, TLC

VARIABLES
    groups,         \* table groups: id -> [name]
    group_aliases,  \* table group_aliases: set of [group_id, alias]
    incidents,      \* table incidents: id -> row
    ttps,           \* table ttps: id -> [attack_id, title]
    incident_ttps,  \* table incident_ttps: set of [incident_id, ttp_id]
    handled,        \* number of requests served
    request,        \* the last request: JSON body of /search or the id of /group/id/<id>
    queries,        \* the SQL statements the last handler executed, in order
    incidents_raw,  \* group_details: ids of the rows fetched at lines 364-388, in order
    response        \* what the last handler returned

vars ==
    <<groups, group_aliases, incidents, ttps, incident_ttps,
      handled, request, queries, incidents_raw, response>>
tables == <<groups, group_aliases, incidents, ttps, incident_ttps>>

-----------------------------------------------------------------------------
(* Text.  A string is a sequence of code points; SQL NULL / Python None is *)
(* the one-element sequence holding code point 0, which no text contains.  *)

NULL == <<0>>

\* Python truthiness of an Optional[str]: None and '' are falsy
Truthy(s) == s # NULL /\ s # <<>>

\* sqlite3Tolower on ASCII: 'A'..'Z' (65..90) fold to 'a'..'z'
Lower(c) == IF c >= 65 /\ c <= 90 THEN c + 32 ELSE c

\* SQLite patternCompare for LIKE without ESCAPE: '%' (37) matches any run of
\* characters, '_' (95) matches exactly one, anything else matches itself
\* ignoring ASCII case.
RECURSIVE LikeFrom(_, _, _, _)
LikeFrom(pat, s, i, j) ==
    IF i > Len(pat) THEN j > Len(s)
    ELSE IF pat[i] = 37
         THEN LikeFrom(pat, s, i + 1, j)
              \/ (j <= Len(s) /\ LikeFrom(pat, s, i, j + 1))
         ELSE /\ j <= Len(s)
              /\ (pat[i] = 95 \/ Lower(pat[i]) = Lower(s[j]))
              /\ LikeFrom(pat, s, i + 1, j + 1)

\* x LIKE pat as a WHERE / CASE WHEN condition: NULL LIKE pat is NULL, not true
Like(x, pat) == x # NULL /\ LikeFrom(pat, x, 1, 1)

\* x = y, x >= y, x <= y as conditions: a NULL operand makes them not true
StrLt(a, b) ==
    \E k \in 1..(Len(a) + 1) :
        /\ \A j \in 1..(k - 1) : j <= Len(b) /\ a[j] = b[j]
        /\ k <= Len(b)
        /\ (k > Len(a) \/ a[k] < b[k])
StrLe(a, b) == a = b \/ StrLt(a, b)
SqlEq(x, y) == x # NULL /\ y # NULL /\ x = y
SqlGe(x, y) == x # NULL /\ y # NULL /\ StrLe(y, x)
SqlLe(x, y) == x # NULL /\ y # NULL /\ StrLe(x, y)

\* a || ' ' || b: NULL if either operand is NULL
TtpName(t) ==
    IF t.attack_id = NULL \/ t.title = NULL THEN NULL
    ELSE t.attack_id \o <<32>> \o t.title

\* str.strip() on the whitespace of the alphabet (space)
RECURSIVE LStrip(_)
LStrip(s) == IF s # <<>> /\ Head(s) = 32 THEN LStrip(Tail(s)) ELSE s
RECURSIVE RStrip(_)
RStrip(s) ==
    IF s # <<>> /\ s[Len(s)] = 32 THEN RStrip(SubSeq(s, 1, Len(s) - 1)) ELSE s
Strip(s) == RStrip(LStrip(s))

\* ascending order of a set of strings, as sorted(list(set(...)))
RECURSIVE Sorted(_)
Sorted(S) ==
    IF S = {} THEN <<>>
    ELSE LET m == CHOOSE x \in S : \A y \in S : StrLe(x, y)
         IN <<m>> \o Sorted(S \ {m})

\* ','.join(parts), the text GROUP_CONCAT builds from the values in `parts`
RECURSIVE Join(_)
Join(parts) ==
    IF parts = <<>> THEN <<>>
    ELSE IF Len(parts) = 1 THEN parts[1]
    ELSE parts[1] \o <<44>> \o Join(Tail(parts))

\* s.split(',')
RECURSIVE Split(_)
Split(s) ==
    IF \A k \in 1..Len(s) : s[k] # 44 THEN <<s>>
    ELSE LET k == CHOOSE n \in 1..Len(s) :
                      s[n] = 44 /\ \A m \in 1..(n - 1) : s[m] # 44
         IN <<SubSeq(s, 1, k - 1)>> \o Split(SubSeq(s, k + 1, Len(s)))

Range(f) == {f[x] : x \in DOMAIN f}

\* the orders in which a set can be listed (SQLite fixes none for
\* GROUP_CONCAT(DISTINCT ...) nor for rows equal under ORDER BY)
Perms(S) ==
    {f \in [1..Cardinality(S) -> S] : \A i, j \in DOMAIN f : i # j => f[i] # f[j]}

-----------------------------------------------------------------------------
(* search(): the aggregation query of lines 158-229.                       *)

\* request.get_json() fields after .strip() (lines 141-147)
Parse(data) ==
    [query          |-> Strip(data.query),
     sector_filter  |-> Strip(data.sector),
     country_filter |-> Strip(data.country),
     ttp_filter     |-> Strip(data.ttp),
     date_from      |-> Strip(data.date_from),
     date_to        |-> Strip(data.date_to)]

\* search_pattern = f'%{query}%' if query else '%'
search_pattern(query) ==
    IF query # <<>> THEN <<37>> \o query \o <<37>> ELSE <<37>>

\* FROM groups g LEFT JOIN incidents i LEFT JOIN group_aliases ga
\* LEFT JOIN incident_ttps it LEFT JOIN ttps t: the joined rows of group g.
\* i = 0 / a = NULL / t = 0 stand for the all-NULL right side of a LEFT JOIN
\* that found no partner.
JoinRows(g) ==
    LET is == {i \in DOMAIN incidents : incidents[i].group_id = g}
        as == {ga.alias : ga \in {x \in group_aliases : x.group_id = g}}
        ts(i) == {it.ttp_id : it \in {x \in incident_ttps : x.incident_id = i}}
        li == IF is = {} THEN {0} ELSE is
        la == IF as = {} THEN {NULL} ELSE as
        lt(i) == IF i = 0 \/ ts(i) = {} THEN {0} ELSE ts(i)
    IN UNION {UNION {{[g |-> g, i |-> i, a |-> a, t |-> t] : t \in lt(i)} : a \in la} : i \in li}

\* columns of a joined row
g_name(r) == groups[r.g].name
i_sector(r) == IF r.i = 0 THEN NULL ELSE incidents[r.i].sector
i_country(r) == IF r.i = 0 THEN NULL ELSE incidents[r.i].country
i_victim_name(r) == IF r.i = 0 THEN NULL ELSE incidents[r.i].victim_name
i_incident_date(r) == IF r.i = 0 THEN NULL ELSE incidents[r.i].incident_date
t_name(r) == IF r.t = 0 THEN NULL ELSE TtpName(ttps[r.t])

\* the text-search clause appended when query is non-empty (lines 188-198)
QueryClause(r, pat) ==
    \/ Like(g_name(r), pat)
    \/ Like(r.a, pat)
    \/ Like(i_sector(r), pat)
    \/ Like(t_name(r), pat)
    \/ Like(i_victim_name(r), pat)

\* a sector test by containment, as the free-text clause does it
SectorClauseLike(r, q) ==
    q.sector_filter # <<>> => Like(i_sector(r), search_pattern(q.sector_filter))

\* a lower date bound that leaves out the bound itself
DateFromClauseStrict(r, q) ==
    q.date_from # <<>> =>
        i_incident_date(r) # NULL /\ StrLt(q.date_from, i_incident_date(r))

\* the structured filters (lines 200-222)
SectorClause(r, q) == q.sector_filter # <<>> => SqlEq(i_sector(r), q.sector_filter)
CountryClause(r, q) == q.country_filter # <<>> => SqlEq(i_country(r), q.country_filter)
TtpClause(r, q) == q.ttp_filter # <<>> => SqlEq(t_name(r), q.ttp_filter)
DateFromClause(r, q) == q.date_from # <<>> => SqlGe(i_incident_date(r), q.date_from)
DateToClause(r, q) == q.date_to # <<>> => SqlLe(i_incident_date(r), q.date_to)

\* WHERE 1=1 AND ... as composed for the request
Where(r, q) ==
    /\ q.query # <<>> => QueryClause(r, search_pattern(q.query))
    /\ SectorClause(r, q)
    /\ CountryClause(r, q)
    /\ TtpClause(r, q)
    /\ DateFromClause(r, q)
    /\ DateToClause(r, q)

Surviving(g, q) == {r \in JoinRows(g) : Where(r, q)}

\* a count that takes the NULL of an unmatched LEFT JOIN for a value
CountWithNull(S) == Cardinality(S)

\* aggregate functions over the rows of one group; NULL inputs are skipped
CountDistinct(S) == Cardinality(S \ {0})
\* MAX(CASE WHEN c THEN 1 ELSE 0 END), `conds` the values of c over the rows
MaxCase(conds) == IF TRUE \in conds THEN 1 ELSE 0
MinText(S) ==
    IF S \ {NULL} = {} THEN NULL
    ELSE CHOOSE x \in S \ {NULL} : \A y \in S \ {NULL} : StrLe(x, y)
MaxText(S) ==
    IF S \ {NULL} = {} THEN NULL
    ELSE CHOOSE x \in S \ {NULL} : \A y \in S \ {NULL} : StrLe(y, x)
\* GROUP_CONCAT(DISTINCT x) listing the distinct non-NULL values in order `ord`
GroupConcat(ord) == IF ord = <<>> THEN NULL ELSE Join(ord)

\* the aliases that CASE WHEN ga.alias LIKE ? THEN ga.alias END keeps
MatchingAliases(rows, pat) == {r.a : r \in {x \in rows : Like(x.a, pat)}}

\* one row of the SELECT list (lines 159-172) for group g, over `rows`, the
\* joined rows of g that pass WHERE.  `ao` lists alias texts in the order
\* GROUP_CONCAT meets them; sectors and countries are concatenated in
\* ascending order, any order giving the same set after split().
SelectRow(g, rows, q, ao) ==
    LET pat == search_pattern(q.query)
    IN [group_id |-> g,
        group_name |-> groups[g].name,
        incident_count |-> CountDistinct({r.i : r \in rows}),
        sectors |-> GroupConcat(Sorted({i_sector(r) : r \in rows} \ {NULL})),
        countries |-> GroupConcat(Sorted({i_country(r) : r \in rows} \ {NULL})),
        matched_name |-> MaxCase({Like(g_name(r), pat) : r \in rows}),
        matched_alias |-> MaxCase({Like(r.a, pat) : r \in rows}),
        matched_sector |-> MaxCase({Like(i_sector(r), pat) : r \in rows}),
        matched_ttp |-> MaxCase({Like(t_name(r), pat) : r \in rows}),
        matched_victim |-> MaxCase({Like(i_victim_name(r), pat) : r \in rows}),
        matching_aliases |->
            GroupConcat(SelectSeq(ao, LAMBDA a : a \in MatchingAliases(rows, pat))),
        first_incident |-> MinText({i_incident_date(r) : r \in rows}),
        last_incident |-> MaxText({i_incident_date(r) : r \in rows})]

\* GROUP BY g.id, g.name HAVING incident_count > 0: the groups that have a
\* row passing WHERE and a non-zero count; surv[g] is Surviving(g, q)
ResultGroups(surv) ==
    {g \in DOMAIN surv :
        surv[g] # {} /\ CountDistinct({r.i : r \in surv[g]}) > 0}

\* ORDER BY g.name ASC alone
OrderByName(ord, surv) ==
    \A k, l \in DOMAIN ord : k < l => StrLe(groups[ord[k]].name, groups[ord[l]].name)

\* ORDER BY incident_count DESC, g.name ASC holds of the listing `ord`
OrderBy(ord, surv) ==
    LET cnt(g) == CountDistinct({r.i : r \in surv[g]})
    IN \A k, l \in DOMAIN ord :
          k < l =>
            \/ cnt(ord[k]) > cnt(ord[l])
            \/ cnt(ord[k]) = cnt(ord[l]) /\ StrLe(groups[ord[k]].name, groups[ord[l]].name)

\* filter(None, s.split(',')) as a list, and its a[:2]
NonEmpty(parts) == SelectSeq(parts, LAMBDA a : a # <<>>)
FirstTwo(s) == SubSeq(s, 1, IF Len(s) < 2 THEN Len(s) ELSE 2)

\* sorted(list(set(filter(None, row[col].split(','))))) (lines 238-243)
ParseList(col) ==
    IF Truthy(col) THEN Sorted(Range(NonEmpty(Split(col)))) ELSE <<>>

\* lines 246-258
MatchReasons(row) ==
    (IF row.matched_name = 1 THEN <<[label |-> "Group Name", aliases |-> <<>>]>> ELSE <<>>)
    \o (IF row.matched_alias = 1 /\ Truthy(row.matching_aliases)
        THEN <<[label |-> "Alias",
                aliases |-> FirstTwo(NonEmpty(Split(row.matching_aliases)))]>>
        ELSE <<>>)
    \o (IF row.matched_sector = 1 THEN <<[label |-> "Sector", aliases |-> <<>>]>> ELSE <<>>)
    \o (IF row.matched_ttp = 1 THEN <<[label |-> "TTP", aliases |-> <<>>]>> ELSE <<>>)
    \o (IF row.matched_victim = 1 THEN <<[label |-> "Victim Name", aliases |-> <<>>]>> ELSE <<>>)

\* the dictionary appended to `groups` for one result row (lines 260-269)
FormatRow(row) ==
    [group_id |-> row.group_id,
     group_name |-> row.group_name,
     incident_count |-> row.incident_count,
     sectors |-> ParseList(row.sectors),
     countries |-> ParseList(row.countries),
     match_reasons |-> MatchReasons(row),
     first_incident |-> row.first_incident,
     last_incident |-> row.last_incident]

-----------------------------------------------------------------------------
(* IEEE-754 binary64 arithmetic of the completeness score (lines 374-383): *)
(* LENGTH(...) / 100.0 and the two additions that follow are REAL          *)
(* operations, each rounded to 53 significant bits, round-half-to-even.    *)
(* A value below 16 is a sequence of IntBits + FracBits bits, most         *)
(* significant first; bit k weighs 2^(IntBits - k).  Every double between  *)
(* 2^-7 and 16 is such a sequence exactly.                                  *)

IntBits == 4
FracBits == 59
Mantissa == 53

Zeros(n) == SubSeq([k \in 1..n |-> 0], 1, n)

\* the bits of the natural number n, in `w` bits
RECURSIVE NatBits(_, _)
NatBits(n, w) == IF w = 0 THEN <<>> ELSE NatBits(n \div 2, w - 1) \o <<n % 2>>

\* 2^k modulo 100, by repeated squaring
RECURSIVE PowTwoMod(_)
PowTwoMod(k) ==
    IF k = 0 THEN 1
    ELSE IF k % 2 = 0 THEN (PowTwoMod(k \div 2) * PowTwoMod(k \div 2)) % 100
    ELSE (2 * PowTwoMod(k - 1)) % 100

\* r / 100 for 0 <= r < 100 by long division: `n` fraction bits and whether
\* a remainder is left (the quotient is inexact at that length).  The
\* remainder after k bits is r * 2^k modulo 100.
FracDiv(r, n) ==
    [bits |-> SubSeq([k \in 1..n |-> (2 * ((r * PowTwoMod(k - 1)) % 100)) \div 100], 1, n),
     sticky |-> (r * PowTwoMod(n)) % 100 # 0]

\* x + 2^(IntBits - k): add one at bit k, carrying to the left.  Bit j flips
\* when every bit between j and k is a one.
AddAt(x, k) ==
    SubSeq([j \in 1..Len(x) |->
               IF j <= k /\ \A m \in (j + 1)..k : x[m] = 1 THEN 1 - x[j] ELSE x[j]],
           1, Len(x))

\* exact sum of two bit sequences of the same length: bit j receives a carry
\* when some lower bit generates one and every bit between passes it on
AddBits(x, y) ==
    LET carry(j) ==
            \E g \in (j + 1)..Len(x) :
                /\ x[g] = 1 /\ y[g] = 1
                /\ \A m \in (j + 1)..(g - 1) : x[m] # y[m]
    IN SubSeq([j \in 1..Len(x) |-> (x[j] + y[j] + IF carry(j) THEN 1 ELSE 0) % 2],
              1, Len(x))

\* round the exact value (x, sticky) to Mantissa significant bits, ties to
\* even; x may be longer than IntBits + FracBits, the result is not
RoundDouble(x, sticky) ==
    LET W == IntBits + FracBits
        ones == {k \in 1..Len(x) : x[k] = 1}
    IN IF ones = {} THEN Zeros(W)
       ELSE LET lead == CHOOSE k \in ones : \A m \in ones : k <= m
                last == lead + Mantissa - 1
                kept == SubSeq(SubSeq(x, 1, IF last < Len(x) THEN last ELSE Len(x)) \o Zeros(W), 1, W)
                half == last + 1 <= Len(x) /\ x[last + 1] = 1
                more == sticky \/ \E k \in (last + 2)..Len(x) : x[k] = 1
            IN IF half /\ (more \/ x[last] = 1) THEN AddAt(kept, last) ELSE kept

\* (double) n / 100.0
DivHundred(n) ==
    LET q == FracDiv(n % 100, FracBits + 1)
    IN RoundDouble(NatBits(n \div 100, IntBits) \o q.bits, q.sticky)

\* x + y in binary64
AddDouble(x, y) == RoundDouble(AddBits(x, y), FALSE)

\* (double) n, and n * 0.5
IntDouble(n) == NatBits(n, IntBits) \o Zeros(FracBits)
HalfDouble(n) == NatBits(n, IntBits + 1) \o Zeros(FracBits - 1)

\* x < y on doubles written as bit sequences
DoubleLt(x, y) ==
    \E k \in 1..Len(x) : x[k] < y[k] /\ \A j \in 1..(k - 1) : x[j] = y[j]

-----------------------------------------------------------------------------
(* group_details(): lines 275-431.                                         *)

\* ', '.join(parts)
RECURSIVE JoinComma(_)
JoinComma(parts) ==
    IF parts = <<>> THEN <<>>
    ELSE IF Len(parts) = 1 THEN parts[1]
    ELSE parts[1] \o <<44, 32>> \o JoinComma(Tail(parts))

\* the literals 'N/A', 'Unknown Victim', 'No synopsis available.', '0'
NA == <<78, 47, 65>>
UnknownVictim == <<85, 110, 107, 110, 111, 119, 110, 32, 86, 105, 99, 116, 105, 109>>
NoSynopsis ==
    <<78, 111, 32, 115, 121, 110, 111, 112, 115, 105, 115, 32,
      97, 118, 97, 105, 108, 97, 98, 108, 101, 46>>
ZeroText == <<48>>

\* x or default
OrElse(x, default) == IF Truthy(x) THEN x ELSE default

\* ', '.join(rows) if rows else 'N/A'
JoinOrNA(parts) == IF parts = <<>> THEN NA ELSE JoinComma(parts)

IncidentsOf(gid) == {i \in DOMAIN incidents : incidents[i].group_id = gid}
TtpsOf(i) == {it.ttp_id : it \in {x \in incident_ttps : x.incident_id = i}}

\* ORDER BY t.attack_id of a set of ttp ids, as a list of ttp_name
RECURSIVE ByAttackId(_)
ByAttackId(T) ==
    IF T = {} THEN <<>>
    ELSE LET m == CHOOSE t \in T : \A u \in T : StrLe(ttps[t].attack_id, ttps[u].attack_id)
         IN <<TtpName(ttps[m])>> \o ByAttackId(T \ {m})

\* the view group_activity_summary for one group: first and last incident date
ActivitySummary(gid) ==
    [first_incident |-> MinText({incidents[i].incident_date : i \in IncidentsOf(gid)}),
     last_incident |-> MaxText({incidents[i].incident_date : i \in IncidentsOf(gid)})]

\* CASE WHEN x IS NOT NULL AND x != '' THEN 1 ELSE 0 END
Populated(x) == IF x # NULL /\ x # <<>> THEN 1 ELSE 0

\* LENGTH(COALESCE(x, ''))
LengthOf(x) == IF x = NULL THEN 0 ELSE Len(x)

\* completeness_score of incident i (lines 374-383), a binary64 value:
\* the three CASE terms add as integers, the other two terms as REAL
completeness_score(i) ==
    LET inc == incidents[i]
        fields == Populated(inc.sector) + Populated(inc.data_exposed)
                      + Populated(inc.source_url)
    IN AddDouble(AddDouble(IntDouble(fields), DivHundred(LengthOf(inc.data_exposed))),
                 HalfDouble(Cardinality({x \in incident_ttps : x.incident_id = i})))

\* x sorts below y in SQLite's order of a TEXT column: NULL first, then text
DateLt(x, y) == IF x = NULL THEN y # NULL ELSE y # NULL /\ StrLt(x, y)

\* ORDER BY completeness_score DESC, i.incident_date DESC holds of the
\* listing `ord`; score[i] is completeness_score(i)
OrderByScore(ord, score) ==
    \A k, l \in DOMAIN ord :
        k < l =>
            /\ ~DoubleLt(score[ord[k]], score[ord[l]])
            /\ score[ord[k]] = score[ord[l]] =>
                   ~DateLt(incidents[ord[k]].incident_date, incidents[ord[l]].incident_date)

\* the dictionary appended to `incidents` for one row (lines 392-413)
IncidentEntry(i) ==
    [victim_name |-> OrElse(incidents[i].victim_name, UnknownVictim),
     victim_sector |-> OrElse(incidents[i].sector, NA),
     victim_country |-> OrElse(incidents[i].country, NA),
     date_of_leak |-> OrElse(incidents[i].incident_date, NA),
     data_exposed |-> OrElse(incidents[i].data_exposed, NA),
     mitre_ttps |-> JoinOrNA(ByAttackId(TtpsOf(i))),
     source_url |-> incidents[i].source_url]

\* the summary dictionary (lines 306-354 and 418-429)
Summary(gid) ==
    LET group == groups[gid]
        aliases == Sorted({ga.alias : ga \in {x \in group_aliases : x.group_id = gid}})
        alias_list == <<group.name>> \o aliases
        countries == Sorted({incidents[i].country : i \in IncidentsOf(gid)} \ {NULL, <<>>})
        industries == Sorted({incidents[i].sector : i \in IncidentsOf(gid)} \ {NULL, <<>>})
        activity == ActivitySummary(gid)
        group_ttps == ByAttackId(UNION {TtpsOf(i) : i \in IncidentsOf(gid)})
    IN [group_name |-> group.name,
        aliases |-> IF Len(alias_list) > 1 THEN JoinComma(Tail(alias_list)) ELSE NA,
        synopsis |-> OrElse(group.synopsis, NoSynopsis),
        motivation |-> OrElse(group.motivation, NA),
        regions |-> JoinOrNA(countries),
        industries |-> JoinOrNA(industries),
        mitre_ttps |-> JoinOrNA(group_ttps),
        total_victims |->
            IF Truthy(group.total_victims) /\ group.total_victims # ZeroText
            THEN group.total_victims ELSE ZeroText,
        first_seen |-> OrElse(activity.first_incident, NA),
        last_seen |-> OrElse(activity.last_incident, NA)]

-----------------------------------------------------------------------------
(* The datasets and the requests the handlers are run on.                  *)

NumGroups == 2       \* groups in the filter, text and profile datasets
MaxIncidents == 2    \* incidents in those datasets
MaxAliases == 2      \* aliases of a group
RankGroups == 3      \* groups in the ranking datasets
RankIncidents == 3   \* incidents in the ranking datasets
MaxRequests == 1     \* requests served in one behaviour

\* "a", "B"
GroupNames == {<<97>>, <<66>>}
\* "ab", "b,c"
AliasPool == {<<97, 98>>, <<98, 44, 99>>}
\* the ttps table: T1 "a", T2 "c"
TtpCatalogue ==
    <<[attack_id |-> <<84, 49>>, title |-> <<97>>],
      [attack_id |-> <<84, 50>>, title |-> <<99>>]>>

GroupRow(name) ==
    [name |-> name, synopsis |-> NULL, motivation |-> NULL, total_victims |-> NULL]

\* an incident row and the ids of its techniques
Profile(victim, sector, country, date, data, url, tt) ==
    [row |-> [victim_name |-> victim, sector |-> sector, country |-> country,
              incident_date |-> date, data_exposed |-> data, source_url |-> url],
     ttps |-> tt]

\* victim "Z", sector "a", country "U", date "2", technique T1
PlainProfile == Profile(<<90>>, <<97>>, <<85>>, <<50>>, NULL, NULL, {1})

\* rows for the structured filters: the plain row, rows that differ from it
\* in one column (sector "a,b", country "K", date "1", date "3", technique
\* T2, both techniques), a row of NULLs and a row of empty texts
FilterProfiles ==
    {PlainProfile,
     Profile(<<90>>, <<97, 44, 98>>, <<85>>, <<50>>, NULL, NULL, {1}),
     Profile(<<90>>, <<97>>, <<75>>, <<50>>, NULL, NULL, {1}),
     Profile(<<90>>, <<97>>, <<85>>, <<49>>, NULL, NULL, {1}),
     Profile(<<90>>, <<97>>, <<85>>, <<51>>, NULL, NULL, {1}),
     Profile(<<90>>, <<97>>, <<85>>, <<50>>, NULL, NULL, {2}),
     Profile(<<90>>, <<97>>, <<85>>, <<50>>, NULL, NULL, {1, 2}),
     Profile(NULL, NULL, NULL, NULL, NULL, NULL, {}),
     Profile(<<90>>, <<>>, <<>>, <<>>, NULL, NULL, {})}

\* rows for the text search: victim "ax" / "Z", sector "a" / "a,b", with and
\* without a technique, and a row without victim and sector
TextProfiles ==
    {Profile(v, s, <<85>>, <<50>>, NULL, NULL, {}) :
        v \in {<<97, 120>>, <<90>>}, s \in {<<97>>, <<97, 44, 98>>}}
    \cup {Profile(<<90>>, <<97, 44, 98>>, <<85>>, <<50>>, NULL, NULL, {1}),
          Profile(NULL, NULL, <<85>>, <<50>>, NULL, NULL, {2})}

\* rows for the profile page: sector, data_exposed "abc", source_url "u"
\* present or not, date NULL / "1" / "2", zero to two techniques
DetailProfiles ==
    {Profile(<<90>>, s, <<85>>, d, x, u, tt) :
        s \in {NULL, <<97>>}, d \in {NULL, <<49>>, <<50>>},
        x \in {NULL, <<97, 98, 99>>}, u \in {NULL, <<117>>},
        tt \in {{}, {1}, {1, 2}}}

\* "", " A", "_"
QueryPool == {<<>>, <<32, 65>>, <<95>>}
\* "", "a"
SectorFilterPool == {<<>>, <<97>>}
\* "", "U"
CountryFilterPool == {<<>>, <<85>>}
\* "", "T1 a"
TtpFilterPool == {<<>>, <<84, 49, 32, 97>>}
\* "", "2"
DateFilterPool == {<<>>, <<50>>}

Payloads ==
    [query : QueryPool, sector : SectorFilterPool, country : CountryFilterPool,
     ttp : TtpFilterPool, date_from : DateFilterPool, date_to : DateFilterPool]

\* the tables incidents and incident_ttps holding the profiles ps, the k-th
\* attributed to group gs[k]
IncidentsTable(ps, gs) ==
    [k \in DOMAIN ps |->
        [group_id |-> gs[k], victim_name |-> ps[k].row.victim_name,
         sector |-> ps[k].row.sector, country |-> ps[k].row.country,
         incident_date |-> ps[k].row.incident_date,
         data_exposed |-> ps[k].row.data_exposed, source_url |-> ps[k].row.source_url]]
IncidentTtpsTable(ps) ==
    UNION {{[incident_id |-> k, ttp_id |-> t] : t \in ps[k].ttps} : k \in DOMAIN ps}

\* up to `n` incidents drawn from `pool` over groups 1..g, the first one
\* attributed to group 1
Populate(pool, g, n) ==
    \E m \in 0..n :
        \E ps \in [1..m -> pool] :
            \E gs \in [1..m -> 1..g] :
                /\ m > 0 => gs[1] = 1
                /\ incidents = IncidentsTable(ps, gs)
                /\ incident_ttps = IncidentTtpsTable(ps)

Idle ==
    /\ ttps = TtpCatalogue
    /\ handled = 0
    /\ request = [op |-> "none"]
    /\ queries = <<>>
    /\ incidents_raw = <<>>
    /\ response = <<>>

\* ranking datasets: any names, plain incidents attributed to any groups
\* (ids in the order of their groups), no alias
InitRank ==
    /\ groups \in [1..RankGroups -> {GroupRow(n) : n \in GroupNames}]
    /\ group_aliases = {}
    /\ \E m \in 0..RankIncidents :
           \E gs \in [1..m -> 1..RankGroups] :
               /\ \A k \in 1..(m - 1) : gs[k] <= gs[k + 1]
               /\ incidents = IncidentsTable([k \in 1..m |-> PlainProfile], gs)
               /\ incident_ttps = IncidentTtpsTable([k \in 1..m |-> PlainProfile])

\* filter datasets: groups "a" and "B" without alias
InitFilter ==
    /\ groups = [g \in 1..NumGroups |-> GroupRow(IF g = 1 THEN <<97>> ELSE <<66>>)]
    /\ group_aliases = {}
    /\ Populate(FilterProfiles, NumGroups, MaxIncidents)

\* text datasets: group 1 named "a" or "B" with up to MaxAliases aliases
InitText ==
    /\ groups \in {[g \in 1..NumGroups |-> GroupRow(IF g = 1 THEN n ELSE <<66>>)] :
                      n \in GroupNames}
    /\ group_aliases \in
           {S \in SUBSET [group_id : {1}, alias : AliasPool] : Cardinality(S) <= MaxAliases}
    /\ Populate(TextProfiles, NumGroups, MaxIncidents)

\* profile datasets: group 1 bare, group 2 with aliases and a populated row
InitProfile ==
    /\ groups =
           [g \in 1..NumGroups |->
               IF g = 1 THEN GroupRow(<<97>>)
               ELSE [name |-> <<66>>, synopsis |-> <<115>>, motivation |-> <<109>>,
                     total_victims |-> <<52, 50>>]]
    /\ group_aliases = [group_id : {2}, alias : AliasPool]
    /\ Populate(DetailProfiles, NumGroups, MaxIncidents)

InitSearch == Idle /\ (InitRank \/ InitFilter \/ InitText)
InitDetail == Idle /\ InitProfile
Init == Idle /\ (InitRank \/ InitFilter \/ InitText \/ InitProfile)

-----------------------------------------------------------------------------
(* The handlers.                                                           *)

\* POST /search (lines 114-271)
Search ==
    /\ handled < MaxRequests
    /\ \E data \in Payloads :
        LET q == Parse(data)
            surv == [g \in DOMAIN groups |-> Surviving(g, q)]
            hit == ResultGroups(surv)
            shown == UNION {MatchingAliases(surv[g], search_pattern(q.query)) : g \in hit}
        IN \E ord \in Perms(hit) :
             /\ OrderBy(ord, surv)
             /\ \E ao \in Perms(shown) :
                  /\ request' = [op |-> "search", data |-> data]
                  /\ response' =
                         [k \in DOMAIN ord |->
                             FormatRow(SelectRow(ord[k], surv[ord[k]], q, ao))]
    /\ handled' = handled + 1
    /\ queries' = <<"search">>
    /\ incidents_raw' = <<>>
    /\ UNCHANGED tables

\* a lookup that goes on without the group and answers with an empty payload
GroupNotFoundEmptyPayload(group_id) ==
    /\ handled < MaxRequests
    /\ group_id \notin DOMAIN groups
    /\ request' = [op |-> "group_details", group_id |-> group_id]
    /\ queries' = <<"group", "aliases", "countries", "industries", "activity",
                    "group_ttps", "incidents">>
    /\ response' = [status |-> 200, summary |-> <<>>, incidents |-> <<>>]
    /\ incidents_raw' = <<>>
    /\ handled' = handled + 1
    /\ UNCHANGED tables

\* GET /group/id/<group_id>, no such group (lines 292-304)
GroupNotFound(group_id) ==
    /\ handled < MaxRequests
    /\ group_id \notin DOMAIN groups
    /\ request' = [op |-> "group_details", group_id |-> group_id]
    /\ queries' = <<"group">>
    /\ response' = [status |-> 404, body |-> "Group not found"]
    /\ incidents_raw' = <<>>
    /\ handled' = handled + 1
    /\ UNCHANGED tables

\* GET /group/id/<group_id>, the group exists (lines 292-431)
GroupFound(group_id) ==
    /\ handled < MaxRequests
    /\ group_id \in DOMAIN groups
    /\ LET score == SubSeq([i \in DOMAIN incidents |-> completeness_score(i)],
                           1, Len(incidents))
       IN \E ord \in Perms(IncidentsOf(group_id)) :
            /\ OrderByScore(ord, score)
            /\ incidents_raw' = ord
            /\ queries' =
                   <<"group", "aliases", "countries", "industries", "activity",
                     "group_ttps", "incidents">> \o [k \in DOMAIN ord |-> "incident_ttps"]
            /\ response' =
                   [status |-> 200,
                    summary |-> Summary(group_id),
                    incidents |-> [k \in DOMAIN ord |-> IncidentEntry(ord[k])]]
    /\ request' = [op |-> "group_details", group_id |-> group_id]
    /\ handled' = handled + 1
    /\ UNCHANGED tables

\* the route converter <int:group_id> admits the non-negative integers
GroupDetails == \E group_id \in 0..(NumGroups + 1) : GroupNotFound(group_id) \/ GroupFound(group_id)

NextSearch == Search
NextDetail ==
    \/ \E group_id \in 0..(NumGroups + 1) : GroupNotFound(group_id)
    \/ \E group_id \in 0..(NumGroups + 1) : GroupFound(group_id)
Next == Search \/ GroupDetails

SpecSearch == InitSearch /\ [][NextSearch]_vars
SpecDetail == InitDetail /\ [][NextDetail]_vars
Spec == Init /\ [][Next]_vars

-----------------------------------------------------------------------------
(* Properties of search().                                                 *)

Searched == request.op = "search"
\* the trimmed fields of the request
Q == Parse(request.data)
AllFiltersEmpty ==
    /\ Q.sector_filter = <<>> /\ Q.country_filter = <<>> /\ Q.ttp_filter = <<>>
    /\ Q.date_from = <<>> /\ Q.date_to = <<>>
Returned == {response[k].group_id : k \in DOMAIN response}
Labels(entry) == {entry.match_reasons[m].label : m \in DOMAIN entry.match_reasons}
AliasesOf(g) == {ga.alias : ga \in {x \in group_aliases : x.group_id = g}}
NoDuplicates(seq) == \A k, l \in DOMAIN seq : k # l => seq[k] # seq[l]
Ascending(seq) == \A k, l \in DOMAIN seq : k < l => StrLe(seq[k], seq[l])

\* q occurs in x as a substring, ignoring ASCII case; never in NULL
Contains(x, q) ==
    /\ x # NULL
    /\ \E k \in 0..(Len(x) - Len(q)) : \A j \in 1..Len(q) : Lower(x[k + j]) = Lower(q[j])

\* incident i passes the request: it satisfies every supplied structured
\* filter, with a technique of its own that carries the technique filter, and
\* the pattern of the query, if a query is given, matches the name of its
\* group, an alias of its group, its sector, its victim name or that technique
Passes(i, q) ==
    LET inc == incidents[i]
        tts == IF TtpsOf(i) = {} THEN {0} ELSE TtpsOf(i)
        name(t) == IF t = 0 THEN NULL ELSE TtpName(ttps[t])
        Hit(x) == Like(x, search_pattern(q.query))
    IN /\ q.sector_filter # <<>> => inc.sector = q.sector_filter
       /\ q.country_filter # <<>> => inc.country = q.country_filter
       /\ q.date_from # <<>> =>
              inc.incident_date # NULL /\ StrLe(q.date_from, inc.incident_date)
       /\ q.date_to # <<>> =>
              inc.incident_date # NULL /\ StrLe(inc.incident_date, q.date_to)
       /\ \E t \in tts :
              /\ q.ttp_filter # <<>> => name(t) = q.ttp_filter
              /\ q.query # <<>> =>
                     \/ Hit(groups[inc.group_id].name)
                     \/ \E a \in AliasesOf(inc.group_id) : Hit(a)
                     \/ Hit(inc.sector)
                     \/ Hit(inc.victim_name)
                     \/ Hit(name(t))

\* the incidents of g that pass the request
Passing(g) == {i \in IncidentsOf(g) : Passes(i, Q)}

\* C1: a returned group carries an "Alias" reason only if the query is
\* non-empty and some alias of the group contains it, ignoring case
C1_AliasOnlyOnMatch ==
    Searched =>
        \A k \in DOMAIN response :
            "Alias" \in Labels(response[k]) =>
                /\ Q.query # <<>>
                /\ \E a \in AliasesOf(response[k].group_id) : Contains(a, Q.query)

\* C2: with a query and no structured filter, a group is returned iff it has
\* an incident and the query is a substring, ignoring case, of its name, an
\* alias, a sector or victim name of its incidents or a technique of them
C2_TextSearch ==
    (Searched /\ Q.query # <<>> /\ AllFiltersEmpty) =>
        \A g \in DOMAIN groups :
            g \in Returned <=>
                /\ IncidentsOf(g) # {}
                /\ \/ Contains(groups[g].name, Q.query)
                   \/ \E a \in AliasesOf(g) : Contains(a, Q.query)
                   \/ \E i \in IncidentsOf(g) :
                          \/ Contains(incidents[i].sector, Q.query)
                          \/ Contains(incidents[i].victim_name, Q.query)
                          \/ \E t \in TtpsOf(i) : Contains(TtpName(ttps[t]), Q.query)

\* C3: with every field empty, the groups with an incident are returned,
\* each once, by incident_count descending and then by name ascending
C3_EmptyPayloadRanking ==
    (Searched /\ Q.query = <<>> /\ AllFiltersEmpty) =>
        /\ Returned = {g \in DOMAIN groups : IncidentsOf(g) # {}}
        /\ Len(response) = Cardinality(Returned)
        /\ \A k, l \in DOMAIN response :
              k < l =>
                \/ response[k].incident_count > response[l].incident_count
                \/ /\ response[k].incident_count = response[l].incident_count
                   /\ StrLe(response[k].group_name, response[l].group_name)
        /\ \A k \in DOMAIN response :
              response[k].group_name = groups[response[k].group_id].name

\* two groups came back for an empty payload, the one with more incidents
\* first although its name is the greater, and a third group, without
\* incident, stayed out
C3_Witness ==
    /\ Searched /\ Q.query = <<>> /\ AllFiltersEmpty
    /\ Len(response) = 2
    /\ response[1].incident_count = 2 /\ response[2].incident_count = 1
    /\ StrLt(response[2].group_name, response[1].group_name)
    /\ \E g \in DOMAIN groups : IncidentsOf(g) = {}

\* C4: without a query, a group is returned iff one of its incidents
\* satisfies all the supplied structured filters at once (exact equality,
\* inclusive lexical date bounds)
C4_StructuredFilters ==
    (Searched /\ Q.query = <<>>) =>
        \A g \in DOMAIN groups :
            g \in Returned <=>
                \E i \in IncidentsOf(g) : Passes(i, Q)

\* sector and both date bounds were supplied, the bounds equal; a group came
\* back for an incident dated exactly so, while another group, whose sector
\* only contains the filter value, stayed out
C4_Witness ==
    /\ Searched /\ Q.query = <<>>
    /\ Q.sector_filter # <<>> /\ Q.date_from # <<>> /\ Q.date_from = Q.date_to
    /\ Len(response) = 1
    /\ response[1].first_incident = Q.date_from
    /\ \E g \in DOMAIN groups :
          /\ g \notin Returned
          /\ \E i \in IncidentsOf(g) :
                /\ incidents[i].sector # Q.sector_filter
                /\ Contains(incidents[i].sector, Q.sector_filter)

\* C6 as stated: incident_count is the number of incidents whose group_id
\* is the returned group, and that number is not 0
C6_CountsAllIncidents ==
    Searched =>
        \A k \in DOMAIN response :
            /\ response[k].incident_count = Cardinality(IncidentsOf(response[k].group_id))
            /\ response[k].incident_count > 0

\* C6, amended: incident_count is the number of distinct incidents of the
\* group that pass the query and the filters of the request, every incident
\* of the group when all fields are empty; a group is returned iff that
\* number is not 0
C6_CountsSurvivingIncidents ==
    Searched =>
        /\ \A k \in DOMAIN response :
              /\ response[k].incident_count = Cardinality(Passing(response[k].group_id))
              /\ response[k].incident_count > 0
              /\ (Q.query = <<>> /\ AllFiltersEmpty) =>
                     Passing(response[k].group_id) = IncidentsOf(response[k].group_id)
        /\ \A g \in DOMAIN groups : g \in Returned <=> Passing(g) # {}

\* a group came back with a count of 1 although it has two incidents, the
\* counted one carrying several techniques
C6_Witness ==
    /\ Searched
    /\ \E k \in DOMAIN response :
          /\ response[k].incident_count = 1
          /\ Cardinality(IncidentsOf(response[k].group_id)) = 2
          /\ \E i \in Passing(response[k].group_id) : Cardinality(TtpsOf(i)) = 2

\* C8: the sectors list and the countries list of a returned group have no
\* duplicates, ascend, and hold exactly the distinct non-empty labels of the
\* incidents of the group that survived the filters
C8_LabelLists ==
    Searched =>
        \A k \in DOMAIN response :
            LET surviving == Passing(response[k].group_id)
            IN /\ NoDuplicates(response[k].sectors)
               /\ Ascending(response[k].sectors)
               /\ Range(response[k].sectors) =
                      {incidents[i].sector : i \in surviving} \ {NULL, <<>>}
               /\ NoDuplicates(response[k].countries)
               /\ Ascending(response[k].countries)
               /\ Range(response[k].countries) =
                      {incidents[i].country : i \in surviving} \ {NULL, <<>>}

\* the query holds none of the wildcards of LIKE
Literal(q) == \A k \in DOMAIN q : q[k] \notin {37, 95}

\* C9: for a query (here one free of wildcards) the reasons of a returned
\* group are decided by the group and all of its incidents, whatever
\* structured filters are supplied: "Group Name" iff the name contains the
\* query, "Sector" iff a sector of an incident does, "TTP" iff a technique
\* of an incident does, "Victim Name" iff a victim name of an incident does
C9_AttributionIgnoresFilters ==
    (Searched /\ Q.query # <<>> /\ Literal(Q.query)) =>
        \A k \in DOMAIN response :
            LET g == response[k].group_id
                reasons == Labels(response[k])
            IN /\ "Group Name" \in reasons <=> Contains(groups[g].name, Q.query)
               /\ "Sector" \in reasons <=>
                      \E i \in IncidentsOf(g) : Contains(incidents[i].sector, Q.query)
               /\ "TTP" \in reasons <=>
                      \E i \in IncidentsOf(g) :
                          \E t \in TtpsOf(i) : Contains(TtpName(ttps[t]), Q.query)
               /\ "Victim Name" \in reasons <=>
                      \E i \in IncidentsOf(g) : Contains(incidents[i].victim_name, Q.query)

\* the dates of the incidents of g that survived, NULL left out
SurvivingDates(g) == {incidents[i].incident_date : i \in Passing(g)} \ {NULL}

\* C10: first_incident <= last_incident when both are there; they are the
\* least and the greatest date of the incidents that survived the filters,
\* hence first_incident >= date_from and last_incident <= date_to when those
\* are supplied
C10_ActivityWindow ==
    Searched =>
        \A k \in DOMAIN response :
            LET first == response[k].first_incident
                last == response[k].last_incident
                dates == SurvivingDates(response[k].group_id)
            IN /\ (first # NULL /\ last # NULL) => StrLe(first, last)
               /\ Q.date_from # <<>> => first # NULL /\ StrLe(Q.date_from, first)
               /\ Q.date_to # <<>> => last # NULL /\ StrLe(last, Q.date_to)
               /\ IF dates = {} THEN first = NULL /\ last = NULL
                  ELSE /\ first \in dates /\ \A d \in dates : StrLe(first, d)
                       /\ last \in dates /\ \A d \in dates : StrLe(d, last)

\* date_from was supplied and a group came back whose window opens exactly
\* at date_from, an earlier incident of the group having been filtered out
C10_Witness ==
    /\ Searched /\ Q.date_from # <<>>
    /\ \E k \in DOMAIN response :
          /\ response[k].first_incident = Q.date_from
          /\ \E i \in IncidentsOf(response[k].group_id) :
                /\ incidents[i].incident_date # NULL
                /\ StrLt(incidents[i].incident_date, Q.date_from)

-----------------------------------------------------------------------------
(* Properties of group_details().                                          *)

Detailed == request.op = "group_details"
NotFound == [status |-> 404, body |-> "Group not found"]

\* the score of the specification, times 100: 100 for each populated field
\* among sector, data_exposed and source_url, the length of data_exposed,
\* 50 for each technique of the incident
ScoreTimes100(i) ==
    100 * (Populated(incidents[i].sector) + Populated(incidents[i].data_exposed)
               + Populated(incidents[i].source_url))
        + LengthOf(incidents[i].data_exposed)
        + 50 * Cardinality(TtpsOf(i))

\* C5: the incidents of an existing group are listed, each once, by score
\* descending and, among equal scores, by date descending, missing dates last
C5_OrderedByScoreThenDate ==
    (Detailed /\ request.group_id \in DOMAIN groups) =>
        /\ Range(incidents_raw) = IncidentsOf(request.group_id)
        /\ NoDuplicates(incidents_raw)
        /\ \A k, l \in DOMAIN incidents_raw :
              k < l =>
                LET x == incidents_raw[k]
                    y == incidents_raw[l]
                IN \/ ScoreTimes100(x) > ScoreTimes100(y)
                   \/ /\ ScoreTimes100(x) = ScoreTimes100(y)
                      /\ ~DateLt(incidents[x].incident_date, incidents[y].incident_date)

\* C7: an identifier that matches no group yields exactly the NotFound
\* outcome, after the lookup of the group and no other query; an identifier
\* that matches a group yields a payload and never NotFound
C7_NotFound ==
    Detailed =>
        IF request.group_id \in DOMAIN groups
        THEN /\ response.status = 200
             /\ DOMAIN response = {"status", "summary", "incidents"}
        ELSE /\ response = NotFound
             /\ queries = <<"group">>
             /\ incidents_raw = <<>>

\* an identifier beyond the last group was asked for while the table holds
\* groups with incidents, and NotFound came back
C7_Witness ==
    /\ Detailed
    /\ request.group_id > NumGroups
    /\ incidents # <<>>
    /\ response = NotFound

=============================================================================
